---- MODULE Spec2Model ----
(***************************************************************************)
(* microconsole: a Console bound to an input source (c.in) and an output   *)
(* sink (c.out), with three operations: GetInput, GetConfirm, GetPassword. *)
(* Byte strings are sequences of one-character strings; an error is the    *)
(* sequence of messages of its wrap chain (nil is the empty sequence).     *)
(***************************************************************************)
EXTENDS Naturals, Sequences, FiniteSets, TLC

VARIABLES
  cin,        \* c.in : "reader" (strings.Reader), "failing" (failingReader), "stdin" (os.Stdin),
              \*        "nil"
  cout,       \* c.out: "buffer" (bytes.Buffer), "failing" (failingWriter), "stdout" (os.Stdout),
              \*        "nil"
  src,        \* the bytes the input source holds
  pos,        \* how many of them Read calls have consumed
  sink,       \* the bytes the output sink has received
  isTerm,     \* whether file descriptor 0 is a terminal (its termios can be read and set)
  echo,       \* the terminal's ECHO flag
  pc,         \* where the running call is
  op,         \* the running operation
  prompt,     \* its prompt argument
  defaultYes, \* GetConfirm's defaultYes argument
  buf,        \* the bufio.Reader of this GetInput call: its unread bytes
  rdErr,      \* the bufio.Reader's pending read error (b.err)
  lineRet,    \* what GetInput returned
  ret,        \* what the operation returned
  pw,         \* term.ReadPassword: the bytes read so far, the saved ECHO flag, the error
  calls,      \* calls completed
  pos0,       \* pos when the call started
  sink0,      \* sink when the call started
  echo0,      \* echo when the call started
  defaultConsole, \* the package's default instance
  recv,       \* the Console the running call was made on
  via,        \* how it was made: as a method ("method") or by a package-level function ("package")
  last        \* the call before: its operation and the error it returned

vars == <<cin, cout, src, pos, sink, isTerm, echo, pc, op, prompt, defaultYes,
          buf, rdErr, lineRet, ret, pw, calls, pos0, sink0, echo0, last,
          defaultConsole, recv, via>>

-----------------------------------------------------------------------------
(* Bounds *)

MaxLen == 4      \* bytes in the input source of a session
MaxCalls == 2    \* calls in a session
MaxTok == 3      \* letters of a confirmation line
MaxTrim == 4     \* bytes in the input source of a line-input check
MaxPkgLen == 2   \* bytes in the input source of a session of the package
MaxPkgCalls == 2 \* calls in a session of the package

defaultBufSize == 4096

Min(a, b) == IF a < b THEN a ELSE b

SeqsUpTo(A, n) == UNION {[1..k -> A] : k \in 0..n}

-----------------------------------------------------------------------------
(* Errors *)

NoErr == <<>>

ErrInvalidConfirmation == <<"invalid confirmation input">>

EOF == <<"EOF">>

ErrWrite == <<"simulated write failure">>

ErrRead == <<"simulated read failure">>

ErrNotTerminal == <<"inappropriate ioctl for device">>

\* fmt.Errorf(msg + ": %w", err)
Errorf(msg, err) == <<msg>> \o err

\* errors.Is: target is err or one of the errors it wraps
Is(err, target) == \E i \in 1..Len(err) : SubSeq(err, i, Len(err)) = target

-----------------------------------------------------------------------------
(* Strings *)

LF == "\n"

\* unicode.IsSpace on Latin-1: '\t', '\n', '\v', '\f', '\r', ' ', U+0085, U+00A0
IsSpace(c) == c \in {"\t", "\n", "\\v", "\f", "\r", " ", "U+0085", "U+00A0"}

\* a TrimSpace that strips the trailing white space only (strings.TrimRight)
TrimSpace_TrailingOnly(s) ==
  LET nonsp == {i \in 1..Len(s) : s[i] \notin {"\t", "\n", "\\v", "\f", "\r", " "}}
      stop  == IF nonsp = {} THEN 0
               ELSE CHOOSE i \in nonsp : \A j \in nonsp : j <= i
  IN SubSeq(s, 1, stop)

\* strings.TrimSpace: the slice between the first and the last non-space rune
TrimSpace(s) ==
  LET nonsp == {i \in 1..Len(s) : ~IsSpace(s[i])}
      start == IF nonsp = {} THEN Len(s) + 1
               ELSE CHOOSE i \in nonsp : \A j \in nonsp : i <= j
      stop  == IF nonsp = {} THEN Len(s)
               ELSE CHOOSE i \in nonsp : \A j \in nonsp : j <= i
  IN SubSeq(s, start, stop)

UpperLetters ==
  <<"A","B","C","D","E","F","G","H","I","J","K","L","M",
    "N","O","P","Q","R","S","T","U","V","W","X","Y","Z">>

LowerLetters ==
  <<"a","b","c","d","e","f","g","h","i","j","k","l","m",
    "n","o","p","q","r","s","t","u","v","w","x","y","z">>

\* unicode.ToLower on ASCII
ToLowerRune(c) ==
  IF \E i \in 1..Len(UpperLetters) : UpperLetters[i] = c
    THEN LowerLetters[CHOOSE i \in 1..Len(UpperLetters) : UpperLetters[i] = c]
    ELSE c

\* a comparison that is case-sensitive
ToLower_Identity(s) == s

\* strings.ToLower
ToLower(s) == [i \in 1..Len(s) |-> ToLowerRune(s[i])]

\* bytes.IndexByte, 1-based; 0 when c is not in s
IndexByte(s, c) ==
  IF \E i \in 1..Len(s) : s[i] = c
    THEN CHOOSE i \in 1..Len(s) : s[i] = c /\ \A j \in 1..(i - 1) : s[j] # c
    ELSE 0

-----------------------------------------------------------------------------
(* The streams *)

\* a nil stream that is taken for a stream that works
NilDeref_Never(stream) == FALSE

\* a method call on a nil interface value: a run-time panic
NilDeref(stream) == stream = "nil"

\* io.Writer.Write's possible errors: bytes.Buffer never fails, failingWriter
\* always does, a file descriptor fails when the system call does
WriteErrs(w) ==
  IF w = "failing" THEN {ErrWrite}
  ELSE IF w = "stdout" THEN {NoErr, ErrWrite}
  ELSE {NoErr}

\* io.Reader.Read into a buffer with room for `space` bytes: the possible (n, err).
\* strings.Reader copies all that is left; a file descriptor returns what the
\* system has ready, at least one byte; both report EOF only on a later Read.
Read(r, data, off, space) ==
  CASE r = "failing" -> {[n |-> 0, err |-> ErrRead]}
    [] r = "reader"  ->
         IF off >= Len(data) THEN {[n |-> 0, err |-> EOF]}
         ELSE {[n |-> Min(Len(data) - off, space), err |-> NoErr]}
    [] OTHER         ->
         IF off >= Len(data) THEN {[n |-> 0, err |-> EOF]}
         ELSE {[n |-> k, err |-> NoErr] : k \in 1..Min(Len(data) - off, space)}

\* the bytes a source holds: src is the data of c.in; any other source is empty
DataOf(r) == IF r = cin THEN src ELSE <<>>

\* the sink after a writer took s: sink is what c.out received
Received(w, s) == IF w = cout THEN sink \o s ELSE sink

-----------------------------------------------------------------------------
(* The constructors and the default instance *)

\* NewWithStreams(in, out)
NewWithStreams(in, out) == [in |-> in, out |-> out]

\* New()
New == [in |-> "stdin", out |-> "stdout"]

NoConsole == [in |-> "none", out |-> "none"]

-----------------------------------------------------------------------------
(* Console.GetInput and Console.GetConfirm *)

NoRet == [str |-> <<>>, bool |-> FALSE, err |-> NoErr]

NoLast == [op |-> "none", err |-> NoErr]

NoPw == [bytes |-> <<>>, saved |-> TRUE, err |-> NoErr]

\* the two suffixes exchanged
Suffix_Swapped(dy) ==
  IF dy THEN <<" ", "[", "y", "/", "N", "]", ":", " ">>
        ELSE <<" ", "[", "Y", "/", "n", "]", ":", " ">>

\* GetConfirm's suffix
Suffix(dy) ==
  IF dy THEN <<" ", "[", "Y", "/", "n", "]", ":", " ">>
        ELSE <<" ", "[", "y", "/", "N", "]", ":", " ">>

\* a prompt written with fmt.Fprintln
InputPrompt_Println(o, p, dy) ==
  (IF o = "GetConfirm"
     THEN p \o (IF dy THEN <<" ", "[", "Y", "/", "n", "]", ":", " ">>
                      ELSE <<" ", "[", "y", "/", "N", "]", ":", " ">>)
     ELSE p) \o <<"\n">>

\* the prompt GetInput is called with
InputPrompt(o, p, dy) == IF o = "GetConfirm" THEN p \o Suffix(dy) ELSE p

\* a check that never sees the write error
WriteFailed_Ignored(err) == FALSE

\* GetInput: if err != nil, after fmt.Fprint
WriteFailed(err) == err # NoErr

\* GetInput when the prompt write failed
GetInputWriteFailed(err) ==
  [str |-> <<>>, bool |-> FALSE, err |-> Errorf("writing prompt", err)]

\* a GetInput that takes end-of-stream for an empty line
GetInputAfterRead_EOFIsEmpty(input, err) ==
  IF err # NoErr /\ err # EOF
    THEN [str |-> <<>>, bool |-> FALSE, err |-> Errorf("reading input", err)]
    ELSE [str |-> <<>>, bool |-> FALSE, err |-> NoErr]

\* a GetInput that accepts a final line without terminator
GetInputAfterRead_PartialLine(input, err) ==
  IF err # NoErr /\ ~(err = EOF /\ input # <<>>)
    THEN [str |-> <<>>, bool |-> FALSE, err |-> Errorf("reading input", err)]
    ELSE [str |-> TrimSpace(input), bool |-> FALSE, err |-> NoErr]

\* a GetInput that returns the line as ReadString delivered it
GetInputAfterRead_Untrimmed(input, err) ==
  IF err # NoErr
    THEN [str |-> <<>>, bool |-> FALSE, err |-> Errorf("reading input", err)]
    ELSE [str |-> input, bool |-> FALSE, err |-> NoErr]

\* GetInput after reader.ReadString('\n') returned (input, err)
GetInputAfterRead(input, err) ==
  IF err # NoErr
    THEN [str |-> <<>>, bool |-> FALSE, err |-> Errorf("reading input", err)]
    ELSE [str |-> TrimSpace(input), bool |-> FALSE, err |-> NoErr]

\* a GetConfirm that answers false to an empty line
GetConfirmAfterInput_NoDefault(lr, dy) ==
  IF lr.err # NoErr THEN [str |-> <<>>, bool |-> FALSE, err |-> lr.err]
  ELSE LET t == ToLower(lr.str) IN
       IF t \in {<<"y">>, <<"y", "e", "s">>}
         THEN [str |-> <<>>, bool |-> TRUE, err |-> NoErr]
       ELSE IF t \in {<<>>, <<"n">>, <<"n", "o">>}
         THEN [str |-> <<>>, bool |-> FALSE, err |-> NoErr]
       ELSE [str |-> <<>>, bool |-> FALSE, err |-> ErrInvalidConfirmation]

\* a GetConfirm that reports every failure as an invalid confirmation
GetConfirmAfterInput_MasksError(lr, dy) ==
  IF lr.err # NoErr \/ (lr.str # <<>> /\ ToLower(lr.str) \notin
                          {<<"y">>, <<"y", "e", "s">>, <<"n">>, <<"n", "o">>})
    THEN [str |-> <<>>, bool |-> FALSE, err |-> ErrInvalidConfirmation]
  ELSE IF lr.str = <<>> THEN [str |-> <<>>, bool |-> dy, err |-> NoErr]
  ELSE [str |-> <<>>, bool |-> ToLower(lr.str) \in {<<"y">>, <<"y", "e", "s">>},
        err |-> NoErr]

\* a GetConfirm that answers the default to a token it does not know
GetConfirmAfterInput_DefaultOnInvalid(lr, dy) ==
  IF lr.err # NoErr THEN [str |-> <<>>, bool |-> FALSE, err |-> lr.err]
  ELSE LET t == ToLower(lr.str) IN
       IF t \in {<<"y">>, <<"y", "e", "s">>}
         THEN [str |-> <<>>, bool |-> TRUE, err |-> NoErr]
       ELSE IF t \in {<<"n">>, <<"n", "o">>}
         THEN [str |-> <<>>, bool |-> FALSE, err |-> NoErr]
       ELSE [str |-> <<>>, bool |-> dy, err |-> NoErr]

\* GetConfirm after c.GetInput returned lr
GetConfirmAfterInput(lr, dy) ==
  IF lr.err # NoErr THEN [str |-> <<>>, bool |-> FALSE, err |-> lr.err]
  ELSE IF lr.str = <<>> THEN [str |-> <<>>, bool |-> dy, err |-> NoErr]
  ELSE LET t == ToLower(lr.str) IN
       IF t \in {<<"y">>, <<"y", "e", "s">>}
         THEN [str |-> <<>>, bool |-> TRUE, err |-> NoErr]
       ELSE IF t \in {<<"n">>, <<"n", "o">>}
         THEN [str |-> <<>>, bool |-> FALSE, err |-> NoErr]
       ELSE [str |-> <<>>, bool |-> FALSE, err |-> ErrInvalidConfirmation]

\* what the running operation returns once its GetInput returned lr
Outcome(o, lr, dy) == IF o = "GetConfirm" THEN GetConfirmAfterInput(lr, dy) ELSE lr

Prompts == {<<>>, <<"?">>}

CallGetInput(p) ==
  /\ pc = "idle"
  /\ pc' = "in_write"
  /\ op' = "GetInput"
  /\ prompt' = p
  /\ recv' = NewWithStreams(cin, cout)
  /\ via' = "method"
  /\ UNCHANGED <<cin, cout, src, pos, sink, isTerm, echo, defaultYes,
                 buf, rdErr, lineRet, ret, pw, calls, pos0, sink0, echo0, last,
                 defaultConsole>>

CallGetConfirm(p, dy) ==
  /\ pc = "idle"
  /\ pc' = "in_write"
  /\ op' = "GetConfirm"
  /\ prompt' = p
  /\ defaultYes' = dy
  /\ recv' = NewWithStreams(cin, cout)
  /\ via' = "method"
  /\ UNCHANGED <<cin, cout, src, pos, sink, isTerm, echo,
                 buf, rdErr, lineRet, ret, pw, calls, pos0, sink0, echo0, last,
                 defaultConsole>>

\* a GetInput that keeps its buffered reader: c.in = bufio.NewReader(c.in)
InAfterNewReader_Kept(in) == "bufio"

\* c.in after reader := bufio.NewReader(c.in): the reader is a local variable of
\* the call and the field is not assigned
InAfterNewReader(in) == in

\* fmt.Fprint(c.out, prompt) and the check of its error; then bufio.NewReader(c.in)
GetInput_Fprint ==
  /\ pc = "in_write"
  /\ IF NilDeref(recv.out)
       THEN /\ pc' = "panic"
            /\ UNCHANGED <<cin, sink, buf, rdErr, lineRet, ret>>
       ELSE \E err \in WriteErrs(recv.out) :
         IF WriteFailed(err)
           THEN /\ lineRet' = GetInputWriteFailed(err)
                /\ ret' = Outcome(op, lineRet', defaultYes)
                /\ pc' = "done"
                /\ UNCHANGED <<cin, sink, buf, rdErr>>
           ELSE /\ sink' = Received(recv.out, InputPrompt(op, prompt, defaultYes))
                /\ cin' = InAfterNewReader(cin)
                /\ buf' = <<>>
                /\ rdErr' = NoErr
                /\ pc' = "in_read"
                /\ UNCHANGED <<lineRet, ret>>
  /\ UNCHANGED <<cout, src, pos, isTerm, echo, op, prompt, defaultYes,
                 pw, calls, pos0, sink0, echo0, last,
                 defaultConsole, recv, via>>

\* bufio.Reader.ReadString: no delimiter buffered and no error pending: fill()
ReadString_fill ==
  /\ pc = "in_read"
  /\ IndexByte(buf, LF) = 0
  /\ rdErr = NoErr
  /\ IF NilDeref(recv.in)
       THEN /\ pc' = "panic"
            /\ UNCHANGED <<buf, pos, rdErr>>
       ELSE /\ \E r \in Read(recv.in, DataOf(recv.in), pos, defaultBufSize - Len(buf)) :
                 /\ buf' = buf \o SubSeq(DataOf(recv.in), pos + 1, pos + r.n)
                 /\ pos' = pos + r.n
                 /\ rdErr' = r.err
            /\ pc' = pc
  /\ UNCHANGED <<cin, cout, src, sink, isTerm, echo, op, prompt, defaultYes,
                 lineRet, ret, pw, calls, pos0, sink0, echo0, last,
                 defaultConsole, recv, via>>

\* a GetConfirm that prompts again after an invalid answer
AfterLine_Retry(o, r) ==
  IF o = "GetConfirm" /\ r.err = <<"invalid confirmation input">> THEN "in_write" ELSE "done"

\* where the call goes once the line is judged: every branch of GetInput and of
\* GetConfirm's switch is a return statement
AfterLine(o, r) == "done"

\* bufio.Reader.ReadString returns: the bytes through the delimiter, or all
\* buffered bytes with the pending error; then the rest of GetInput (and GetConfirm)
ReadString_return ==
  /\ pc = "in_read"
  /\ IndexByte(buf, LF) > 0 \/ rdErr # NoErr
  /\ LET i     == IndexByte(buf, LF)
         input == IF i > 0 THEN SubSeq(buf, 1, i) ELSE buf
         err   == IF i > 0 THEN NoErr ELSE rdErr
     IN /\ lineRet' = GetInputAfterRead(input, err)
        /\ ret' = Outcome(op, lineRet', defaultYes)
  /\ pc' = AfterLine(op, ret')
  /\ UNCHANGED <<cin, cout, src, pos, sink, isTerm, echo, op, prompt, defaultYes,
                 buf, rdErr, pw, calls, pos0, sink0, echo0, last,
                 defaultConsole, recv, via>>

\* the call has returned to its caller
Return ==
  /\ pc = "done"
  /\ pc' = "idle"
  /\ op' = "none"
  /\ prompt' = <<>>
  /\ defaultYes' = FALSE
  /\ buf' = <<>>
  /\ rdErr' = NoErr
  /\ lineRet' = NoRet
  /\ ret' = NoRet
  /\ calls' = calls + 1
  /\ pos0' = pos
  /\ sink0' = sink
  /\ echo0' = echo
  /\ recv' = NoConsole
  /\ via' = "none"
  /\ last' = [op |-> op, err |-> ret.err]
  /\ UNCHANGED <<cin, cout, src, pos, sink, isTerm, echo, pw, defaultConsole>>

-----------------------------------------------------------------------------
(* Line input on an injected reader and buffer: one call per behaviour *)

Letters == {"y", "Y", "e", "E", "s", "S", "n", "N", "o", "O"}

TrimAlphabet == {"y", " ", "\t", "\r", "\f", LF}

LineInputs ==
  SeqsUpTo(TrimAlphabet, MaxTrim)
    \cup {t \o <<LF>> : t \in SeqsUpTo(Letters, MaxTok)}

InitLine ==
  /\ cin = "reader"
  /\ cout = "buffer"
  /\ src \in LineInputs
  /\ pos = 0
  /\ sink = <<>>
  /\ isTerm = FALSE
  /\ echo = TRUE
  /\ pc = "idle"
  /\ op = "none"
  /\ prompt = <<>>
  /\ defaultYes = FALSE
  /\ buf = <<>>
  /\ rdErr = NoErr
  /\ lineRet = NoRet
  /\ ret = NoRet
  /\ pw = NoPw
  /\ calls = 0
  /\ pos0 = 0
  /\ sink0 = <<>>
  /\ echo0 = echo
  /\ defaultConsole = New
  /\ recv = NoConsole
  /\ via = "none"
  /\ last = NoLast

NextLine ==
  \/ calls < 1 /\ \E p \in Prompts : CallGetInput(p)
  \/ calls < 1 /\ \E p \in Prompts, dy \in BOOLEAN : CallGetConfirm(p, dy)
  \/ GetInput_Fprint
  \/ ReadString_fill
  \/ ReadString_return
  \/ Return

SpecLine == InitLine /\ [][NextLine]_vars

-----------------------------------------------------------------------------
(* Console.GetPassword *)

CallGetPassword(p) ==
  /\ pc = "idle"
  /\ pc' = "pw_write"
  /\ op' = "GetPassword"
  /\ prompt' = p
  /\ recv' = NewWithStreams(cin, cout)
  /\ via' = "method"
  /\ UNCHANGED <<cin, cout, src, pos, sink, isTerm, echo, defaultYes,
                 buf, rdErr, lineRet, ret, pw, calls, pos0, sink0, echo0, last,
                 defaultConsole>>

\* GetPassword when the prompt write failed
GetPasswordWriteFailed(err) ==
  [str |-> <<>>, bool |-> FALSE, err |-> Errorf("writing prompt", err)]

\* GetPassword when c.in is not os.Stdin (fmt.Errorf without %w: nothing wrapped)
GetPasswordPolicy ==
  [str |-> <<>>, bool |-> FALSE,
   err |-> <<"password input requires os.Stdin, got different io.Reader">>]

\* a GetPassword that trims the password as GetInput trims a line
GetPasswordAfterRead_Trimmed(password, err) ==
  IF err # NoErr
    THEN [str |-> <<>>, bool |-> FALSE, err |-> Errorf("reading password", err)]
    ELSE [str |-> TrimSpace(password), bool |-> FALSE, err |-> NoErr]

\* a GetPassword that returns term.ReadPassword's error as it is
GetPasswordAfterRead_Unwrapped(password, err) ==
  [str |-> password, bool |-> FALSE, err |-> err]

\* GetPassword after term.ReadPassword returned (password, err)
GetPasswordAfterRead(password, err) ==
  IF err # NoErr
    THEN [str |-> <<>>, bool |-> FALSE, err |-> Errorf("reading password", err)]
    ELSE [str |-> password, bool |-> FALSE, err |-> NoErr]

\* a check that never sees the write error
PasswordWriteFailed_Ignored(err) == FALSE

\* GetPassword: if err != nil, after fmt.Fprint
PasswordWriteFailed(err) == err # NoErr

\* fmt.Fprint(c.out, prompt) and the check of its error
GetPassword_Fprint ==
  /\ pc = "pw_write"
  /\ IF NilDeref(recv.out)
       THEN /\ pc' = "panic"
            /\ UNCHANGED <<sink, ret>>
       ELSE \E err \in WriteErrs(recv.out) :
         IF PasswordWriteFailed(err)
           THEN /\ ret' = GetPasswordWriteFailed(err)
                /\ pc' = "done"
                /\ sink' = sink
           ELSE /\ sink' = Received(recv.out, prompt)
                /\ pc' = "pw_policy"
                /\ ret' = ret
  /\ UNCHANGED <<cin, cout, src, pos, isTerm, echo, op, prompt, defaultYes,
                 buf, rdErr, lineRet, pw, calls, pos0, sink0, echo0, last,
                 defaultConsole, recv, via>>

\* a check that lets every input source through
NotStdin_Never(in) == FALSE

\* c.in != os.Stdin
NotStdin(in) == in # "stdin"

\* a policy check that reads the injected source to its end before it refuses it
GetPassword_policy_Drains ==
  /\ pc = "pw_policy"
  /\ IF NotStdin(recv.in)
       THEN ret' = GetPasswordPolicy /\ pc' = "done" /\ pos' = Len(DataOf(recv.in))
       ELSE ret' = ret /\ pc' = "pw_raw" /\ pos' = pos
  /\ UNCHANGED <<cin, cout, src, sink, isTerm, echo, op, prompt, defaultYes,
                 buf, rdErr, lineRet, pw, calls, pos0, sink0, echo0, last,
                 defaultConsole, recv, via>>

\* if c.in != os.Stdin
GetPassword_policy ==
  /\ pc = "pw_policy"
  /\ IF NotStdin(recv.in)
       THEN ret' = GetPasswordPolicy /\ pc' = "done"
       ELSE ret' = ret /\ pc' = "pw_raw"
  /\ UNCHANGED <<cin, cout, src, pos, sink, isTerm, echo, op, prompt, defaultYes,
                 buf, rdErr, lineRet, pw, calls, pos0, sink0, echo0, last,
                 defaultConsole, recv, via>>

\* term.ReadPassword: read the terminal state, clear ECHO, defer its restoration;
\* on a descriptor that is no terminal the ioctl fails and nothing is changed
ReadPassword_noecho ==
  /\ pc = "pw_raw"
  /\ IF ~isTerm
       THEN /\ ret' = GetPasswordAfterRead(<<>>, ErrNotTerminal)
            /\ pc' = "done"
            /\ UNCHANGED <<echo, pw>>
       ELSE /\ pw' = [bytes |-> <<>>, saved |-> echo, err |-> NoErr]
            /\ echo' = FALSE
            /\ pc' = "pw_read"
            /\ ret' = ret
  /\ UNCHANGED <<cin, cout, src, pos, sink, isTerm, op, prompt, defaultYes,
                 buf, rdErr, lineRet, calls, pos0, sink0, echo0, last,
                 defaultConsole, recv, via>>

\* term.readPasswordLine: one Read of one byte
ReadPassword_byte ==
  /\ pc = "pw_read"
  /\ \E r \in Read("stdin", DataOf("stdin"), pos, 1) :
       /\ pos' = pos + r.n
       /\ IF r.n > 0
            THEN LET c == DataOf("stdin")[pos + 1] IN
                 CASE c = LF    -> pw' = pw /\ pc' = "pw_restore"
                   [] c = "\r"  -> pw' = pw /\ pc' = "pw_read"
                   [] c = "\\b" ->
                        /\ pw' = [pw EXCEPT !.bytes =
                                    SubSeq(@, 1, IF Len(@) > 0 THEN Len(@) - 1 ELSE 0)]
                        /\ pc' = "pw_read"
                   [] OTHER     ->
                        /\ pw' = [pw EXCEPT !.bytes = Append(@, c)]
                        /\ pc' = "pw_read"
            ELSE /\ pw' = [pw EXCEPT !.err =
                             IF r.err = EOF /\ Len(pw.bytes) > 0 THEN NoErr ELSE r.err]
                 /\ pc' = "pw_restore"
  /\ UNCHANGED <<cin, cout, src, sink, isTerm, echo, op, prompt, defaultYes,
                 buf, rdErr, lineRet, ret, calls, pos0, sink0, echo0, last,
                 defaultConsole, recv, via>>

\* a restoration that is skipped when the read failed
RestoreEcho_OnSuccessOnly(saved, current, err) == IF err = NoErr THEN saved ELSE current

\* the deferred unix.IoctlSetTermios(fd, ioctlWriteTermios, termios): the state
\* saved before ECHO was cleared, whatever readPasswordLine returned
RestoreEcho(saved, current, err) == saved

\* term.ReadPassword returns: the deferred restoration of the terminal state
ReadPassword_restore ==
  /\ pc = "pw_restore"
  /\ echo' = RestoreEcho(pw.saved, echo, pw.err)
  /\ pc' = "pw_after"
  /\ UNCHANGED <<cin, cout, src, pos, sink, isTerm, op, prompt, defaultYes,
                 buf, rdErr, lineRet, ret, pw, calls, pos0, sink0, echo0, last,
                 defaultConsole, recv, via>>

\* a GetPassword that ends the line on failure too
PasswordNewline_Always(err) == <<"\n">>

\* what GetPassword writes once term.ReadPassword returned err: fmt.Fprintln(c.out)
\* on success, nothing on failure
PasswordNewline(err) == IF err # NoErr THEN <<>> ELSE <<LF>>

\* the check of term.ReadPassword's error; fmt.Fprintln(c.out), its error dropped
GetPassword_return ==
  /\ pc = "pw_after"
  /\ ret' = GetPasswordAfterRead(pw.bytes, pw.err)
  /\ IF PasswordNewline(pw.err) = <<>>
       THEN sink' = sink
       ELSE \E err \in WriteErrs(recv.out) :
              sink' = IF err = NoErr THEN Received(recv.out, PasswordNewline(pw.err))
                                     ELSE sink
  /\ pw' = NoPw
  /\ pc' = "done"
  /\ UNCHANGED <<cin, cout, src, pos, isTerm, echo, op, prompt, defaultYes,
                 buf, rdErr, lineRet, calls, pos0, sink0, echo0, last,
                 defaultConsole, recv, via>>

-----------------------------------------------------------------------------
(* A session: a Console of any construction, and up to MaxCalls calls on it *)

SessAlphabet == {"y", " ", LF}

\* the Consoles NewWithStreams constructs
Consoles ==
  {NewWithStreams(in, out) : in \in {"reader", "failing", "stdin", "nil"},
                             out \in {"buffer", "failing", "nil"}}

Init ==
  /\ \E c \in Consoles : cin = c.in /\ cout = c.out
  /\ src \in (IF cin \in {"failing", "nil"} THEN {<<>>} ELSE SeqsUpTo(SessAlphabet, MaxLen))
  /\ pos = 0
  /\ sink = <<>>
  /\ isTerm \in (IF cin = "stdin" THEN BOOLEAN ELSE {FALSE})
  /\ echo = TRUE
  /\ pc = "idle"
  /\ op = "none"
  /\ prompt = <<>>
  /\ defaultYes = FALSE
  /\ buf = <<>>
  /\ rdErr = NoErr
  /\ lineRet = NoRet
  /\ ret = NoRet
  /\ pw = NoPw
  /\ calls = 0
  /\ pos0 = 0
  /\ sink0 = <<>>
  /\ echo0 = echo
  /\ defaultConsole = New
  /\ recv = NoConsole
  /\ via = "none"
  /\ last = NoLast

Next ==
  \/ calls < MaxCalls /\ \E p \in Prompts : CallGetInput(p)
  \/ calls < MaxCalls /\ \E p \in Prompts, dy \in BOOLEAN : CallGetConfirm(p, dy)
  \/ calls < MaxCalls /\ \E p \in Prompts : CallGetPassword(p)
  \/ GetInput_Fprint
  \/ ReadString_fill
  \/ ReadString_return
  \/ GetPassword_Fprint
  \/ GetPassword_policy
  \/ ReadPassword_noecho
  \/ ReadPassword_byte
  \/ ReadPassword_restore
  \/ GetPassword_return
  \/ Return

Spec == Init /\ [][Next]_vars

-----------------------------------------------------------------------------
(* The package: its default instance and the package-level functions *)

\* a package-level function bound to the instance New() made
PkgReceiver_Original(d) == [in |-> "stdin", out |-> "stdout"]

\* the receiver of defaultConsole.GetInput(prompt), defaultConsole.GetConfirm(..)
\* and defaultConsole.GetPassword(prompt): the value of the variable at the call
PkgReceiver(d) == d

\* func GetInput(prompt string) (string, error)
GetInput(p) ==
  /\ pc = "idle"
  /\ pc' = "in_write"
  /\ op' = "GetInput"
  /\ prompt' = p
  /\ recv' = PkgReceiver(defaultConsole)
  /\ via' = "package"
  /\ UNCHANGED <<cin, cout, src, pos, sink, isTerm, echo, defaultYes,
                 buf, rdErr, lineRet, ret, pw, calls, pos0, sink0, echo0, last,
                 defaultConsole>>

\* func GetConfirm(prompt string, defaultYes bool) (bool, error)
GetConfirm(p, dy) ==
  /\ pc = "idle"
  /\ pc' = "in_write"
  /\ op' = "GetConfirm"
  /\ prompt' = p
  /\ defaultYes' = dy
  /\ recv' = PkgReceiver(defaultConsole)
  /\ via' = "package"
  /\ UNCHANGED <<cin, cout, src, pos, sink, isTerm, echo,
                 buf, rdErr, lineRet, ret, pw, calls, pos0, sink0, echo0, last,
                 defaultConsole>>

\* func GetPassword(prompt string) (string, error)
GetPassword(p) ==
  /\ pc = "idle"
  /\ pc' = "pw_write"
  /\ op' = "GetPassword"
  /\ prompt' = p
  /\ recv' = PkgReceiver(defaultConsole)
  /\ via' = "package"
  /\ UNCHANGED <<cin, cout, src, pos, sink, isTerm, echo, defaultYes,
                 buf, rdErr, lineRet, ret, pw, calls, pos0, sink0, echo0, last,
                 defaultConsole>>

\* defaultConsole = NewWithStreams(mockIn, mockOut): the instance is swapped for c
SwapDefault ==
  /\ pc = "idle"
  /\ defaultConsole # NewWithStreams(cin, cout)
  /\ defaultConsole' = NewWithStreams(cin, cout)
  /\ UNCHANGED <<cin, cout, src, pos, sink, isTerm, echo, pc, op, prompt, defaultYes,
                 buf, rdErr, lineRet, ret, pw, calls, pos0, sink0, echo0, last, recv, via>>

\* defaultConsole = originalConsole; defaultConsole = New()
RestoreDefault ==
  /\ pc = "idle"
  /\ defaultConsole # New
  /\ defaultConsole' = New
  /\ UNCHANGED <<cin, cout, src, pos, sink, isTerm, echo, pc, op, prompt, defaultYes,
                 buf, rdErr, lineRet, ret, pw, calls, pos0, sink0, echo0, last, recv, via>>

PkgAlphabet == {"y", LF}

\* c is the instance New() made, or one made of a strings.Reader and a
\* bytes.Buffer; the process's standard input may be a terminal, in any echo mode
InitPkg ==
  /\ \E c \in {New, NewWithStreams("reader", "buffer")} : cin = c.in /\ cout = c.out
  /\ src \in SeqsUpTo(PkgAlphabet, MaxPkgLen)
  /\ pos = 0
  /\ sink = <<>>
  /\ isTerm \in BOOLEAN
  /\ echo \in (IF isTerm THEN BOOLEAN ELSE {TRUE})
  /\ pc = "idle"
  /\ op = "none"
  /\ prompt = <<>>
  /\ defaultYes = FALSE
  /\ buf = <<>>
  /\ rdErr = NoErr
  /\ lineRet = NoRet
  /\ ret = NoRet
  /\ pw = NoPw
  /\ calls = 0
  /\ pos0 = 0
  /\ sink0 = <<>>
  /\ echo0 = echo
  /\ defaultConsole = New
  /\ recv = NoConsole
  /\ via = "none"
  /\ last = NoLast

NextPkg ==
  \/ calls < MaxPkgCalls /\ CallGetInput(<<"?">>)
  \/ calls < MaxPkgCalls /\ \E dy \in BOOLEAN : CallGetConfirm(<<"?">>, dy)
  \/ calls < MaxPkgCalls /\ CallGetPassword(<<"?">>)
  \/ calls < MaxPkgCalls /\ GetInput(<<"?">>)
  \/ calls < MaxPkgCalls /\ \E dy \in BOOLEAN : GetConfirm(<<"?">>, dy)
  \/ calls < MaxPkgCalls /\ GetPassword(<<"?">>)
  \/ SwapDefault
  \/ RestoreDefault
  \/ GetInput_Fprint
  \/ ReadString_fill
  \/ ReadString_return
  \/ GetPassword_Fprint
  \/ GetPassword_policy
  \/ ReadPassword_noecho
  \/ ReadPassword_byte
  \/ ReadPassword_restore
  \/ GetPassword_return
  \/ Return

SpecPkg == InitPkg /\ [][NextPkg]_vars

-----------------------------------------------------------------------------
(* What the claims speak of *)

\* the input after its first off bytes holds a line terminator
HasLineFrom(off) == \E i \in (off + 1)..Len(src) : src[i] = LF

\* the index of the first line terminator after the first off bytes of the input
LineEndFrom(off) ==
  CHOOSE i \in (off + 1)..Len(src) :
    src[i] = LF /\ \A j \in (off + 1)..(i - 1) : src[j] # LF

\* the input left when the call started holds a line terminator
HasLine == HasLineFrom(pos0)

\* the index of the first line terminator of the input left when the call started
LineEnd == LineEndFrom(pos0)

\* the line s: the input left when the call started, up to its first terminator
FirstLine == SubSeq(src, pos0 + 1, LineEnd - 1)

\* r is s without its leading and trailing characters of W, nothing else changed
IsStripOf(r, s, W) ==
  \E a \in 0..Len(s) : \E b \in 0..(Len(s) - a) :
    /\ \A k \in 1..a : s[k] \in W
    /\ \A k \in (Len(s) - b + 1)..Len(s) : s[k] \in W
    /\ r = SubSeq(s, a + 1, Len(s) - b)
    /\ r = <<>> \/ (r[1] \notin W /\ r[Len(r)] \notin W)

ListedSpace == {" ", "\t", LF, "\r"}

UnicodeSpace == {" ", "\t", LF, "\r", "\\v", "\f", "U+0085", "U+00A0"}

-----------------------------------------------------------------------------
(* C1 *)

\* C1 as stated: a successful GetInput on an input that starts with a line s
\* returns s stripped of leading and trailing space, tab, newline and carriage
\* return only, and the sink has received exactly the prompt.
C1_StripsListedWhitespace ==
  (pc = "done" /\ op = "GetInput" /\ HasLine /\ ret.err = NoErr)
    => /\ IsStripOf(ret.str, FirstLine, ListedSpace)
       /\ sink = sink0 \o prompt

\* C1 amended: a successful GetInput on an input that starts with a line s
\* returns s stripped of its leading and trailing Unicode white space (form feed
\* and vertical tab included), interior white space kept, and the sink has
\* received exactly the prompt.
C1_StripsUnicodeWhitespace ==
  (pc = "done" /\ op = "GetInput" /\ HasLine /\ ret.err = NoErr)
    => /\ IsStripOf(ret.str, FirstLine, UnicodeSpace)
       /\ sink = sink0 \o prompt

C1_Witness ==
  /\ pc = "done" /\ op = "GetInput" /\ ret.err = NoErr
  /\ src = <<"\f", "y", " ", LF>>
  /\ ret.str = <<"y">>
  /\ prompt = <<"?">> /\ sink = <<"?">>
-----------------------------------------------------------------------------
(* C2 *)

\* C2: when the sink fails the prompt write, GetInput and GetConfirm return an
\* error that wraps the write error, no read is attempted and no byte of the
\* input source is consumed.
C2_WriteFailureBeforeRead ==
  (op \in {"GetInput", "GetConfirm"} /\ cout = "failing")
    => /\ pc # "in_read"
       /\ pos = pos0
       /\ pc = "done" => /\ Is(ret.err, <<"simulated write failure">>)
                         /\ ret.err # <<"simulated write failure">>
                         /\ ret.err[1] = "writing prompt"

C2_Witness ==
  /\ pc = "done" /\ op = "GetConfirm" /\ cout = "failing" /\ cin = "reader"
  /\ src = <<"y", LF>> /\ pos = 0
  /\ ret.err = <<"writing prompt", "simulated write failure">>

-----------------------------------------------------------------------------
(* C3 *)

UpperOf(c) ==
  CASE c = "y" -> "Y" [] c = "e" -> "E" [] c = "s" -> "S"
    [] c = "n" -> "N" [] c = "o" -> "O"

\* t is tok in some casing
AnyCasing(t, tok) ==
  /\ Len(t) = Len(tok)
  /\ \A i \in 1..Len(tok) : t[i] = tok[i] \/ t[i] = UpperOf(tok[i])

\* C3: on a non-empty trimmed line, GetConfirm returns (true, nil) for any casing
\* of y or yes, (false, nil) for any casing of n or no, and the sentinel
\* ErrInvalidConfirmation for every other value.
C3_ExactTokenSet ==
  (pc = "done" /\ op = "GetConfirm" /\ lineRet.err = NoErr /\ lineRet.str # <<>>)
    => IF AnyCasing(lineRet.str, <<"y">>) \/ AnyCasing(lineRet.str, <<"y", "e", "s">>)
         THEN ret.bool = TRUE /\ ret.err = NoErr
       ELSE IF AnyCasing(lineRet.str, <<"n">>) \/ AnyCasing(lineRet.str, <<"n", "o">>)
         THEN ret.bool = FALSE /\ ret.err = NoErr
       ELSE ret.err = <<"invalid confirmation input">>

C3_Witness ==
  /\ pc = "done" /\ op = "GetConfirm" /\ defaultYes = FALSE
  /\ src = <<"Y", "e", "S", LF>>
  /\ ret.bool = TRUE /\ ret.err = NoErr

-----------------------------------------------------------------------------
(* C4 *)

\* C4: when the line GetConfirm reads is a bare terminator or holds white space
\* only, GetConfirm returns defaultYes and no error.
C4_EmptyLineGivesDefault ==
  (pc = "done" /\ op = "GetConfirm" /\ HasLine
     /\ \A i \in 1..Len(FirstLine) : FirstLine[i] \in UnicodeSpace)
    => ret.bool = defaultYes /\ ret.err = NoErr

C4_Witness ==
  /\ pc = "done" /\ op = "GetConfirm" /\ defaultYes = TRUE
  /\ src = <<" ", "\t", LF>>
  /\ ret.bool = TRUE /\ ret.err = NoErr

-----------------------------------------------------------------------------
(* C5 *)

\* C5: once GetConfirm has written to a working sink, the sink has received
\* exactly p + " [Y/n]: " (defaultYes) or p + " [y/N]: " (not defaultYes),
\* whatever the input and whatever the outcome of the read.
C5_ConfirmPromptText ==
  (op = "GetConfirm" /\ cout = "buffer" /\ pc \in {"in_read", "done"})
    => sink = sink0 \o prompt \o
                (IF defaultYes THEN <<" ", "[", "Y", "/", "n", "]", ":", " ">>
                               ELSE <<" ", "[", "y", "/", "N", "]", ":", " ">>)

C5_Witness ==
  /\ pc = "done" /\ op = "GetConfirm" /\ cout = "buffer" /\ defaultYes = TRUE
  /\ prompt = <<"?">> /\ ret.err # NoErr
  /\ sink = <<"?", " ", "[", "Y", "/", "n", "]", ":", " ">>
-----------------------------------------------------------------------------
(* C6 *)

\* C6: GetInput on a source at end-of-stream with no data returns an error that
\* wraps io.EOF (errors.Is matches it), and never the empty string as a success.
C6_EmptySourceFails ==
  (pc = "done" /\ op = "GetInput" /\ cout = "buffer"
     /\ cin \in {"reader", "stdin"} /\ pos0 = Len(src))
    => /\ ret.err # NoErr
       /\ Is(ret.err, <<"EOF">>)
       /\ ret.err[1] = "reading input"
       /\ ret.str = <<>>

C6_Witness ==
  /\ pc = "done" /\ op = "GetInput" /\ cout = "buffer" /\ cin = "reader"
  /\ src = <<>> /\ calls = 0
  /\ ret.err = <<"reading input", "EOF">>

-----------------------------------------------------------------------------
(* C7 *)

\* C7: when the source holds bytes but ends before any line terminator, GetInput
\* returns a read error and not the partial text.
C7_PartialLineFails ==
  (pc = "done" /\ op = "GetInput" /\ cout = "buffer"
     /\ cin \in {"reader", "stdin"} /\ pos0 < Len(src) /\ ~HasLine)
    => /\ ret.err # NoErr
       /\ ret.err[1] = "reading input"
       /\ ret.str = <<>>

C7_Witness ==
  /\ pc = "done" /\ op = "GetInput" /\ cout = "buffer" /\ cin = "reader"
  /\ src = <<"y", "y">> /\ pos0 = 0 /\ pos = 2
  /\ ret.err = <<"reading input", "EOF">> /\ ret.str = <<>>

-----------------------------------------------------------------------------
(* C8 *)

\* the text an operation writes before it reads: the prompt, with the
\* confirmation suffix for GetConfirm
PromptText ==
  IF op = "GetConfirm"
    THEN prompt \o (IF defaultYes THEN <<" ", "[", "Y", "/", "n", "]", ":", " ">>
                                  ELSE <<" ", "[", "y", "/", "N", "]", ":", " ">>)
    ELSE prompt

\* C8: in GetInput, GetConfirm and GetPassword no byte of input is read before
\* the prompt is written; while the input is read the sink holds the prompt
\* verbatim with no added newline; and a call that fails after the write (read
\* failure, invalid confirmation, policy violation) has written it all the same.
C8_PromptBeforeRead ==
  op # "none"
    => /\ pc \in {"in_write", "pw_write"} => pos = pos0 /\ sink = sink0
       /\ pc \in {"in_read", "pw_policy", "pw_raw", "pw_read", "pw_restore", "pw_after"}
            => sink = sink0 \o PromptText
       /\ pos # pos0 => SubSeq(sink, 1, Len(sink0) + Len(PromptText)) = sink0 \o PromptText
       /\ (pc = "done" /\ cout = "buffer" /\ ret.err # NoErr)
            => sink = sink0 \o PromptText

C8_Witness ==
  /\ pc = "done" /\ op = "GetConfirm" /\ cout = "buffer" /\ cin = "reader"
  /\ src = <<"y", "y", LF>> /\ pos = 3 /\ prompt = <<"?">> /\ defaultYes = FALSE
  /\ ret.err = <<"invalid confirmation input">>
  /\ sink = <<"?", " ", "[", "y", "/", "N", "]", ":", " ">>

-----------------------------------------------------------------------------
(* C9 *)

\* the second line of the input source
SecondLine == SubSeq(src, LineEndFrom(0) + 1, LineEndFrom(LineEndFrom(0)) - 1)

\* C9: a line read consumes the input source up to and including the next line
\* terminator and no further, so that successive calls return successive lines:
\* on a source of two lines or more, the line read that follows a first line
\* read succeeds and returns the second line (for GetConfirm: its answer).
C9_SuccessiveLines ==
  (pc = "done" /\ op \in {"GetInput", "GetConfirm"} /\ cin = "reader" /\ cout = "buffer"
     /\ calls = 1 /\ pos0 > 0 /\ HasLineFrom(0) /\ HasLineFrom(LineEndFrom(0)))
    => /\ pos0 = LineEndFrom(0)
       /\ lineRet.err = NoErr
       /\ IsStripOf(lineRet.str, SecondLine, UnicodeSpace)
       /\ (op = "GetConfirm" /\ SecondLine = <<"y">>) => ret.bool = TRUE /\ ret.err = NoErr

-----------------------------------------------------------------------------
(* C10 *)

\* the error GetInput returns on these streams when it fails (a sink that took
\* GetConfirm's prompt has grown)
LineInputError ==
  IF cout = "failing" \/ (cout = "stdout" /\ sink = sink0)
    THEN <<"writing prompt", "simulated write failure">>
  ELSE IF cin = "failing" THEN <<"reading input", "simulated read failure">>
  ELSE <<"reading input", "EOF">>

\* C10: when line input fails inside GetConfirm, GetConfirm returns that same
\* error, wrapped as GetInput wraps it, and never ErrInvalidConfirmation.
C10_ConfirmPropagatesError ==
  (pc = "done" /\ op = "GetConfirm" /\ lineRet.err # NoErr)
    => /\ ret.err = lineRet.err
       /\ ret.err = LineInputError
       /\ ret.err # <<"invalid confirmation input">>

C10_Witness ==
  /\ pc = "done" /\ op = "GetConfirm" /\ cin = "failing" /\ cout = "buffer"
  /\ ret.err = <<"reading input", "simulated read failure">>

-----------------------------------------------------------------------------
(* C11 *)

\* the error GetPassword returns when c.in is not os.Stdin
PolicyViolation == <<"password input requires os.Stdin, got different io.Reader">>

\* C11: GetPassword on a Console whose input source is not the process's standard
\* input returns the policy-violation error and no text, after the prompt was
\* written: the sink has received exactly the prompt, nothing was read and the
\* echo mode is as it was.
C11_PolicyViolationAfterPrompt ==
  (pc = "done" /\ op = "GetPassword" /\ cin # "stdin" /\ cout = "buffer")
    => /\ ret = [str |-> <<>>, bool |-> FALSE, err |-> PolicyViolation]
       /\ sink = sink0 \o prompt
       /\ pos = pos0
       /\ echo = echo0

C11_Witness ==
  /\ pc = "done" /\ op = "GetPassword" /\ cin = "reader" /\ cout = "buffer"
  /\ src = <<"y", LF>> /\ prompt = <<"?">> /\ sink = <<"?">>
  /\ ret.err = PolicyViolation

-----------------------------------------------------------------------------
(* C12 *)

\* C12: when the prompt write of GetPassword fails, the call returns the write
\* error, wrapped, and goes no further: the policy check is not reached, no input
\* is read, the echo mode is not changed and the sink has received nothing.
C12_PasswordWriteFailureStops ==
  (op = "GetPassword" /\ cout = "failing")
    => /\ pc \in {"pw_write", "done"}
       /\ pos = pos0
       /\ echo = echo0
       /\ sink = sink0
       /\ pc = "done" =>
            ret = [str |-> <<>>, bool |-> FALSE,
                   err |-> <<"writing prompt", "simulated write failure">>]

C12_Witness ==
  /\ pc = "done" /\ op = "GetPassword" /\ cout = "failing"
  /\ cin = "stdin" /\ isTerm /\ src = <<"y", LF>>
  /\ ret.err = <<"writing prompt", "simulated write failure">>

-----------------------------------------------------------------------------
(* C13 *)

\* C13: the terminal's echo mode differs from the mode the call found only inside
\* term.ReadPassword, between the switch to no-echo and the deferred restoration;
\* when GetPassword has returned, with a password or with a read error, and
\* between calls, the mode is the prior one.
C13_EchoRestored ==
  /\ echo # echo0 => (op = "GetPassword" /\ pc \in {"pw_read", "pw_restore"})
  /\ pc \in {"pw_read", "pw_restore"} => (echo = FALSE /\ pw.saved = echo0)

C13_Witness ==
  /\ pc = "done" /\ op = "GetPassword" /\ cin = "stdin" /\ isTerm
  /\ ret.err = <<"reading password", "EOF">>
  /\ echo0 = TRUE /\ echo = TRUE

-----------------------------------------------------------------------------
(* C14 *)

\* what is typed at the terminal when the call starts: the input up to its first
\* line terminator, or all of it when it ends without one
TypedLine == IF HasLine THEN FirstLine ELSE SubSeq(src, pos0 + 1, Len(src))

\* C14: when GetPassword succeeds on a sink that takes its writes, the sink has
\* received the prompt and then exactly one newline, and the text returned is the
\* typed line as it is, its leading and trailing white space kept; the source is
\* consumed through the line terminator and no further.
C14_PasswordUntrimmedThenNewline ==
  (pc = "done" /\ op = "GetPassword" /\ cout = "buffer" /\ ret.err = NoErr)
    => /\ sink = sink0 \o prompt \o <<"\n">>
       /\ ret.str = TypedLine
       /\ pos = (IF HasLine THEN LineEnd ELSE Len(src))

C14_Witness ==
  /\ pc = "done" /\ op = "GetPassword" /\ cout = "buffer" /\ ret.err = NoErr
  /\ src = <<" ", "y", " ", LF>> /\ prompt = <<"?">>
  /\ ret.str = <<" ", "y", " ">> /\ sink = <<"?", LF>>

-----------------------------------------------------------------------------
(* C15 *)

\* the failure of term.ReadPassword on this standard input: the ioctl error when
\* it is no terminal, end of input when nothing is left to read
PasswordReadCause == IF ~isTerm THEN ErrNotTerminal ELSE EOF

\* C15: when GetPassword runs on os.Stdin and the terminal mode cannot be switched
\* (the descriptor is no terminal) or the read fails (nothing left to read), it
\* returns the empty string and an error "reading password: ..." that wraps the
\* cause; the sink has received the prompt and no newline.
C15_PasswordReadFailure ==
  (pc = "done" /\ op = "GetPassword" /\ cin = "stdin" /\ cout = "buffer"
     /\ (~isTerm \/ pos0 = Len(src)))
    => /\ ret.str = <<>>
       /\ ret.err = <<"reading password">> \o PasswordReadCause
       /\ Is(ret.err, PasswordReadCause)
       /\ sink = sink0 \o prompt

C15_Witness ==
  /\ pc = "done" /\ op = "GetPassword" /\ cin = "stdin" /\ cout = "buffer"
  /\ ~isTerm /\ src = <<"y", LF>> /\ ret.str = <<>>
  /\ ret.err = <<"reading password", "inappropriate ioctl for device">>

-----------------------------------------------------------------------------
(* C16 *)

\* C16, as claimed: on a Console with a nil input source or a nil output sink no
\* operation returns to its caller; the first one invoked ends in a panic. (Stated
\* for sinks whose writes do not fail, so that a return is due to the nil stream.)
C16_NilAlwaysPanics ==
  ((cin = "nil" \/ cout = "nil") /\ cout # "failing") => pc # "done"

\* C16, amended: an operation panics where it first uses the nil stream. With a
\* nil sink every operation panics at its prompt write, with nothing written or
\* read. With a nil source and a sink that took the prompt, GetInput and
\* GetConfirm panic at the read; GetPassword, which never reads c.in, returns the
\* policy-violation error, and an operation whose prompt write failed returns the
\* write error. No operation returns a result, and only a nil stream panics.
C16_NilPanicsAtFirstUse ==
  /\ (cout = "nil" /\ op # "none")
       => (pc \in {"in_write", "pw_write", "panic"} /\ sink = sink0 /\ pos = pos0)
  /\ (cin = "nil" /\ cout = "buffer" /\ op \in {"GetInput", "GetConfirm"})
       => /\ pc \in {"in_write", "in_read", "panic"}
          /\ pc = "panic" => sink = sink0 \o PromptText
  /\ (cin = "nil" /\ pc = "done")
       => /\ ret.str = <<>> /\ ret.bool = FALSE
          /\ ret.err = (IF cout = "failing"
                          THEN <<"writing prompt", "simulated write failure">>
                          ELSE PolicyViolation)
  /\ pc = "panic" => (cin = "nil" \/ cout = "nil")

C16_Witness ==
  /\ pc = "panic" /\ cin = "nil" /\ cout = "buffer" /\ op = "GetConfirm"
  /\ prompt = <<"?">> /\ defaultYes = TRUE
  /\ sink = <<"?", " ", "[", "Y", "/", "n", "]", ":", " ">>

-----------------------------------------------------------------------------
(* C17 *)

\* C17: no failed write goes unreported: an operation on c that returned no error
\* had each of its writes taken by the sink, the prompt and, for GetPassword, the
\* newline after it.
C17_NoSwallowedError ==
  (pc = "done" /\ recv = NewWithStreams(cin, cout) /\ ret.err = NoErr)
    => sink = sink0 \o PromptText \o (IF op = "GetPassword" THEN <<"\n">> ELSE <<>>)

-----------------------------------------------------------------------------
(* C18 *)

-----------------------------------------------------------------------------
(* C19 *)

\* what the method GetInput returns on a strings.Reader whose prompt write succeeded
MethodGetInput ==
  IF HasLine THEN [str |-> TrimSpace(FirstLine), bool |-> FALSE, err |-> NoErr]
             ELSE [str |-> <<>>, bool |-> FALSE, err |-> <<"reading input", "EOF">>]

\* what the method of the running operation returns on c, a Console of a
\* strings.Reader and a bytes.Buffer
MethodResult ==
  CASE op = "GetInput"    -> MethodGetInput
    [] op = "GetConfirm"  -> GetConfirmAfterInput(MethodGetInput, defaultYes)
    [] op = "GetPassword" -> [str |-> <<>>, bool |-> FALSE, err |-> PolicyViolation]

\* C19: a call of a package-level function runs the method on the instance the
\* package variable holds at the call, also after the variable was assigned:
\* when that instance is c, the call writes to c's sink, reads c's source and
\* returns what the method returns on c; when it is another instance, c's
\* sink and source are left as they were.
C19_PackagePassThrough ==
  via = "package" =>
    /\ recv = defaultConsole
    /\ recv # NewWithStreams(cin, cout) => (sink = sink0 /\ pos = pos0)
    /\ (recv = NewWithStreams(cin, cout) /\ cin = "reader" /\ pc = "done")
         => /\ ret = MethodResult
            /\ sink = sink0 \o PromptText
            /\ pos = (IF op = "GetPassword" THEN pos0 ELSE Len(src))

C19_Witness ==
  /\ via = "package" /\ pc = "done" /\ op = "GetConfirm" /\ calls = 1
  /\ cin = "reader" /\ cout = "buffer"
  /\ defaultConsole = NewWithStreams("reader", "buffer")
  /\ src = <<"y", LF>> /\ pos0 = 0 /\ ret.bool = TRUE /\ ret.err = NoErr
  /\ sink0 = <<"?">>
  /\ sink = <<"?", "?", " ", "[", "y", "/", "N", "]", ":", " ">>

-----------------------------------------------------------------------------
(* C20 *)

\* C20: within one GetConfirm call the sink grows once, by the prompt with its
\* suffix and before any byte is read, and a byte is read only while no line
\* terminator has been read in this call: once a line is in, invalid token or
\* not, the call returns without another prompt and without another read.
C20_NoRetry ==
  [][op = "GetConfirm" =>
       /\ sink' # sink => (sink = sink0 /\ pos = pos0 /\ sink' = sink0 \o PromptText)
       /\ pos' # pos => ~\E i \in (pos0 + 1)..pos : src[i] = LF]_vars

C20_Witness ==
  /\ pc = "done" /\ op = "GetConfirm" /\ cin = "stdin" /\ cout = "buffer"
  /\ src = <<"y", "y", LF, "y">> /\ pos0 = 0 /\ pos = 3
  /\ ret.err = <<"invalid confirmation input">> /\ ret.bool = FALSE
  /\ prompt = <<"?">> /\ defaultYes = FALSE
  /\ sink = <<"?", " ", "[", "y", "/", "N", "]", ":", " ">>

-----------------------------------------------------------------------------
(* C21 *)

\* C21: no step of a GetInput, GetConfirm or GetPassword call, of a call that
\* succeeds, fails or panics, changes the source or the sink the Console is
\* bound to: c.in and c.out are what the constructor set.
C21_StreamsFixed ==
  [][cin' = cin /\ cout' = cout]_vars

C21_Witness ==
  /\ pc = "idle" /\ calls = 2 /\ cin = "stdin" /\ cout = "buffer" /\ isTerm
  /\ src = <<"y", LF, "y">> /\ pos = 3
  /\ sink = <<"?", "?", LF>>

-----------------------------------------------------------------------------
(* C22 *)

\* C22: what GetInput returns inside GetConfirm is determined by the source alone,
\* and for a line whose trimmed content is not empty GetConfirm's result and
\* error are those the call would have returned with the other value of
\* defaultYes; for a line whose trimmed content is empty they are not: the
\* result is defaultYes.
C22_DefaultYesOnlyForEmptyLine ==
  (pc = "done" /\ op = "GetConfirm" /\ HasLine)
    => /\ lineRet = MethodGetInput
       /\ lineRet.str # <<>> => ret = GetConfirmAfterInput(lineRet, ~defaultYes)
       /\ lineRet.str = <<>> =>
            /\ ret = [str |-> <<>>, bool |-> defaultYes, err |-> NoErr]
            /\ ret # GetConfirmAfterInput(lineRet, ~defaultYes)

C22_Witness ==
  /\ pc = "done" /\ op = "GetConfirm" /\ defaultYes = TRUE
  /\ src = <<"N", "o", LF>>
  /\ ret.bool = FALSE /\ ret.err = NoErr

-----------------------------------------------------------------------------
(* C23 *)

\* C23: the string a successful GetInput returns holds no line terminator, does
\* not begin and does not end with white space, and is left as it is by another
\* TrimSpace; so also when the source delivered more than the first line in the
\* read.
C23_ResultIsTrimmed ==
  (pc = "done" /\ op = "GetInput" /\ ret.err = NoErr)
    => /\ \A i \in 1..Len(ret.str) : ret.str[i] # "\n"
       /\ ret.str # <<>> =>
            (ret.str[1] \notin UnicodeSpace /\ ret.str[Len(ret.str)] \notin UnicodeSpace)
       /\ TrimSpace(ret.str) = ret.str

C23_Witness ==
  /\ pc = "done" /\ op = "GetInput" /\ ret.err = NoErr
  /\ src = <<" ", "y", LF, "y">> /\ pos = 4
  /\ ret.str = <<"y">>

-----------------------------------------------------------------------------
(* C24 *)

\* C24: a GetPassword that returned the policy-violation error has consumed no
\* byte of the injected source and left the echo mode as it was; a GetInput that
\* follows it on a Console of a strings.Reader and a bytes.Buffer starts at the
\* first byte of the source and returns its first line, trimmed.
C24_PolicyFailureLeavesSource ==
  /\ (pc = "done" /\ op = "GetPassword" /\ ret.err = PolicyViolation)
       => (pos = pos0 /\ echo = echo0)
  /\ (last = [op |-> "GetPassword", err |-> PolicyViolation] /\ calls = 1
        /\ op = "GetInput" /\ cin = "reader" /\ cout = "buffer")
       => /\ pos0 = 0
          /\ (pc = "done" /\ HasLine) =>
               ret = [str |-> TrimSpace(FirstLine), bool |-> FALSE, err |-> NoErr]

C24_Witness ==
  /\ last = [op |-> "GetPassword", err |-> PolicyViolation] /\ calls = 1
  /\ pc = "done" /\ op = "GetInput" /\ cin = "reader" /\ cout = "buffer"
  /\ src = <<" ", "y", LF, "y">> /\ ret.str = <<"y">> /\ ret.err = NoErr
  /\ sink = <<"?", "?">> /\ echo = TRUE

====
